---- MODULE Spec2Model ----
(***************************************************************************)
(* Frame scheduling and viewport synchronisation of src/main.js:           *)
(* the module-level clock, Loop (tick/start/stop), Resizer (setSize and    *)
(* the resize listener), World (constructor/init/start/stop) and main().   *)
(*                                                                         *)
(* three.js objects are modelled by the behaviour main.js relies on:       *)
(*   THREE.Clock            autoStart clock, getDelta()                    *)
(*   renderer.setAnimationLoop(cb)  one callback slot; the animation       *)
(*                          object requests one host frame at a time and   *)
(*                          re-requests only after the callback returned   *)
(*   renderer.setSize / setPixelRatio, camera.aspect                       *)
(* Time is counted in milliseconds; getDelta() returns milliseconds/1000,  *)
(* so every delta below is the numerator of a fraction over 1000.          *)
(***************************************************************************)
EXTENDS Integers, Sequences, FiniteSets, TLC

\* ------------------------------------------------------------ bounds
MaxTime == 1
MaxFrames == 2
MaxUpdatables == 2
MaxCalls == 3
MaxDim == 2

NULL == "null"

VARIABLES
    now,            \* host wall clock, performance.now()
    hostFrames,     \* display refreshes delivered by the host so far
    host,           \* container.clientWidth/clientHeight, window.devicePixelRatio
    pc,             \* position of main()
    initOutcome,    \* settlement of the promise world.init() returned
    updatables,     \* Loop.updatables
    clock,          \* the module-level THREE.Clock
    renderer,       \* animation loop slot and output size of the WebGLRenderer
    camera,         \* camera.aspect
    listener,       \* the window 'resize' listener is registered
    targetCopies,   \* assignments of orbitControls.target
    errorLogged,    \* console.error ran in main().catch
    startCalls,     \* Loop.start() calls
    calls,          \* start() and stop() calls made on the Loop driven directly
    lifecycle,      \* "idle", "running", "stopped": last of start()/stop()
    startsInARow,   \* start() calls since the last stop()
    reference,      \* time of the last start() call or frame-callback invocation
    failure,        \* "none", "failed" (a tick raised), "stopped" (stop() after
                    \* that), "revived" (start() after that stop())
    tickCount,      \* tick calls received by each Updatable
    invocations,    \* frame-callback invocations since each registration
    frame,          \* what the last host frame did
    mainLog,        \* order of the steps main() has taken
    dimEvent,       \* last event on the viewport: "none", "construct", "stale" (the
                    \* host changed), "resize", "resized" (a resize after a change)
    writes          \* which context wrote which shared state

vars == << now, hostFrames, host, pc, initOutcome, updatables, clock, renderer,
           camera, listener, targetCopies, errorLogged, startCalls, calls, lifecycle,
           startsInARow, reference, failure, tickCount, invocations, frame, mainLog,
           dimEvent, writes >>

\* ------------------------------------------------------------ THREE.Clock
FreshClock == [autoStart |-> TRUE, running |-> FALSE, startTime |-> 0,
               oldTime |-> 0, elapsedTime |-> 0]

ClockStart(c, t) ==
    [c EXCEPT !.running = TRUE, !.startTime = t, !.oldTime = t, !.elapsedTime = 0]

\* clock.getDelta(): the first call starts the clock and returns 0
GetDelta(c, t) ==
    IF c.autoStart /\ ~c.running
    THEN [delta |-> 0, clock |-> ClockStart(c, t)]
    ELSE IF c.running
    THEN [delta |-> t - c.oldTime,
          clock |-> [c EXCEPT !.oldTime = t, !.elapsedTime = @ + (t - c.oldTime)]]
    ELSE [delta |-> 0, clock |-> c]

\* ------------------------------------------------------------ Loop
TickEvent(i, delta) == [op |-> "tick", who |-> i, delta |-> delta]
RenderEvent == [op |-> "render", who |-> 0, delta |-> 0]

\* for (const object of this.updatables) object.tick(delta), from index i on.
\* thrower is the index of the Updatable whose tick raises in this invocation
\* (0: none); the raise leaves the for loop, so nothing after it is ticked.
RECURSIVE ForOf(_, _, _, _)
ForOf(i, upd, delta, thrower) ==
    IF i > Len(upd) THEN << >>
    ELSE IF i = thrower THEN << TickEvent(i, delta) >>
    ELSE << TickEvent(i, delta) >> \o ForOf(i + 1, upd, delta, thrower)

RECURSIVE ForOfBackwards(_, _, _, _)
ForOfBackwards(i, upd, delta, thrower) ==
    IF i < 1 THEN << >>
    ELSE IF i = thrower THEN << TickEvent(i, delta) >>
    ELSE << TickEvent(i, delta) >> \o ForOfBackwards(i - 1, upd, delta, thrower)

RECURSIVE ForOfCatching(_, _, _)
ForOfCatching(i, upd, delta) ==
    IF i > Len(upd) THEN << >>
    ELSE << TickEvent(i, delta) >> \o ForOfCatching(i + 1, upd, delta)

Raises(upd, thrower) == thrower \in 1..Len(upd)

\* A tick that walks the Updatables last to first.
LoopTickBackwards(upd, c, t, thrower) ==
    LET g == GetDelta(c, t)
    IN  [events |-> ForOfBackwards(Len(upd), upd, g.delta, thrower),
         clock |-> g.clock, threw |-> Raises(upd, thrower)]

\* A tick that wraps each object.tick in try/catch and carries on.
LoopTickCatching(upd, c, t, thrower) ==
    LET g == GetDelta(c, t)
    IN  [events |-> ForOfCatching(1, upd, g.delta),
         clock |-> g.clock, threw |-> FALSE]

\* Loop.tick()
LoopTick(upd, c, t, thrower) ==
    LET g == GetDelta(c, t)
    IN  [events |-> ForOf(1, upd, g.delta, thrower),
         clock |-> g.clock, threw |-> Raises(upd, thrower)]

\* A callback that renders first and updates afterwards.
LoopCallbackRenderFirst(upd, c, t, thrower) ==
    LET k == LoopTick(upd, c, t, thrower)
    IN  [events |-> << RenderEvent >> \o k.events, clock |-> k.clock, threw |-> k.threw]

\* The arrow function Loop.start() installs: this.tick(), then one render.
\* A raise inside tick() leaves the callback before the render.
LoopCallback(upd, c, t, thrower) ==
    LET k == LoopTick(upd, c, t, thrower)
    IN  [events |-> IF k.threw THEN k.events ELSE k.events \o << RenderEvent >>,
         clock |-> k.clock, threw |-> k.threw]

\* ------------------------------------------------------------ renderer.setAnimationLoop
\* r.callback    the callback slot of the renderer
\* r.isAnimating the animation object considers itself started
\* r.requests    host frame requests outstanding

\* animation.start(): a no-op while already animating
AnimationStart(r) ==
    IF r.isAnimating THEN r
    ELSE [r EXCEPT !.isAnimating = TRUE, !.requests = 1]

\* animation.stop(): cancels the outstanding request
AnimationStop(r) == [r EXCEPT !.isAnimating = FALSE, !.requests = 0]

SetAnimationLoop(r, cb) ==
    LET s == [r EXCEPT !.callback = cb]
    IN  IF cb = NULL THEN AnimationStop(s) ELSE AnimationStart(s)

\* A start() that requests a host frame of its own on every call, as a
\* requestAnimationFrame loop does.
LoopStartRequesting(r) ==
    [r EXCEPT !.callback = "frameCallback", !.isAnimating = TRUE, !.requests = @ + 1]

\* Loop.start()
LoopStart(r) == SetAnimationLoop(r, "frameCallback")

\* A stop() that leaves the callback installed.
LoopStopKeeping(r) == r

\* Loop.stop()
LoopStop(r) == SetAnimationLoop(r, NULL)

\* One outstanding host frame request being served: the renderer's
\* onAnimationFrame calls the callback if one is installed, and the animation
\* object requests the next frame only after that call returned.
ServeRequest(st, r, upd, t, thrower) ==
    IF r.callback = NULL
    THEN [st EXCEPT !.rearm = @ + 1]
    ELSE LET cb == LoopCallback(upd, st.clock, t, thrower)
         IN  [clock |-> cb.clock,
              log |-> st.log \o cb.events,
              rearm |-> IF cb.threw THEN st.rearm ELSE st.rearm + 1,
              threw |-> st.threw \/ cb.threw,
              invoked |-> st.invoked + 1]

RECURSIVE ServeRequests(_, _, _, _, _, _)
ServeRequests(k, st, r, upd, t, thrower) ==
    IF k = 0 THEN st
    ELSE ServeRequests(k - 1, ServeRequest(st, r, upd, t, thrower), r, upd, t, thrower)

\* tick calls object i received in a frame log
TicksOf(log, i) == Cardinality({j \in DOMAIN log : log[j].op = "tick" /\ log[j].who = i})
Renders(log) == Cardinality({j \in DOMAIN log : log[j].op = "render"})

\* ------------------------------------------------------------ Resizer
RECURSIVE GCD(_, _)
GCD(a, b) == IF b = 0 THEN a ELSE GCD(b, a % b)

\* the quotient w / h, kept as a fraction in lowest terms
Ratio(w, h) == << w \div GCD(w, h), h \div GCD(w, h) >>

\* renderer.setSize(w, h): the logical size, and the canvas buffer scaled by
\* the pixel ratio the renderer holds at that moment
RendererSetSize(r, w, h) ==
    [r EXCEPT !.size = << w, h >>, !.canvas = << w * r.pixelRatio, h * r.pixelRatio >>]

\* renderer.setPixelRatio(v): stores v and re-applies the current size
RendererSetPixelRatio(r, v) ==
    RendererSetSize([r EXCEPT !.pixelRatio = v], r.size[1], r.size[2])

\* A setSize that never updates the pixel ratio.
SetSizeWithoutRatio(h, cam, r) ==
    [camera |-> [cam EXCEPT !.aspect = Ratio(h.clientWidth, h.clientHeight)],
     renderer |-> RendererSetSize(r, h.clientWidth, h.clientHeight)]

\* Resizer.setSize(container, camera, renderer)
SetSize(h, cam, r) ==
    [camera |-> [cam EXCEPT !.aspect = Ratio(h.clientWidth, h.clientHeight)],
     renderer |-> RendererSetPixelRatio(
                      RendererSetSize(r, h.clientWidth, h.clientHeight),
                      h.devicePixelRatio)]

\* A listener whose onResizeCallback drives Loop.tick().
ResizeListenerTicking(h, cam, r, c, t) ==
    LET s == SetSize(h, cam, r)
    IN  [camera |-> s.camera, renderer |-> s.renderer,
         clock |-> GetDelta(c, t).clock, touched |-> {"dimensions", "clock"}]

\* The 'resize' listener the Resizer constructor registers. World passes no
\* onResizeCallback, so the guarded call of onResize is skipped.
ResizeListener(h, cam, r, c, t) ==
    LET s == SetSize(h, cam, r)
    IN  [camera |-> s.camera, renderer |-> s.renderer,
         clock |-> c, touched |-> {"dimensions"}]

\* ------------------------------------------------------------ World, main
\* An init() that leaves the orbit target alone.
InitTargetUntouched(n) == n

\* World.init(): target.copy(helicopter.position), n counts the assignments
InitTarget(n) == n + 1

\* A main() that calls world.init() without awaiting it.
AwaitIgnored(outcome) == "resolved"

\* await world.init(): how main() continues after the promise settled
AwaitInit(outcome) == outcome

\* The two Updatables World's constructor registers, in order
WorldUpdatables == << "controls", "helicopter" >>

Kinds == {"updatable"}
Throwing == {"faulty"}

Hosts == [clientWidth : 1..MaxDim, clientHeight : 1..MaxDim, devicePixelRatio : {1, 2}]

FreshRenderer == [callback |-> NULL, isAnimating |-> FALSE, requests |-> 0,
                  size |-> << 0, 0 >>, pixelRatio |-> 1, canvas |-> << 0, 0 >>]

NoFrame == [log |-> << >>, invoked |-> 0, thrower |-> 0, at |-> 0, n |-> 0,
            reference |-> 0, starts |-> 0, lifecycle |-> "idle", failure |-> "none"]

Write(what, ctx) == [state |-> what, ctx |-> ctx, started |-> startCalls > 0]

Fresh ==
    /\ now = 0
    /\ hostFrames = 0
    /\ initOutcome = "none"
    /\ updatables = << >>
    /\ clock = FreshClock
    /\ renderer = FreshRenderer
    /\ camera = [aspect |-> << 0, 0 >>]
    /\ listener = FALSE
    /\ targetCopies = 0
    /\ errorLogged = FALSE
    /\ startCalls = 0
    /\ calls = 0
    /\ lifecycle = "idle"
    /\ startsInARow = 0
    /\ reference = 0
    /\ failure = "none"
    /\ tickCount = << >>
    /\ invocations = << >>
    /\ frame = NoFrame
    /\ mainLog = << >>
    /\ dimEvent = "none"
    /\ writes = {}

\* The page after the module was evaluated, before main() runs
Init ==
    /\ Fresh
    /\ pc = "boot"
    /\ host \in Hosts

\* A Loop constructed on its own, driven through its methods
InitLoop ==
    /\ Fresh
    /\ pc = "loop"
    /\ host = [clientWidth |-> 1, clientHeight |-> 1, devicePixelRatio |-> 1]

hostVars == << host >>
mainVars == << pc, initOutcome, targetCopies, errorLogged, mainLog >>
sizeVars == << camera, listener, dimEvent >>
callVars == << startCalls, calls, lifecycle, startsInARow >>

\* ------------------------------------------------------------ host events
loopObs == << tickCount, invocations, frame >>

\* Wall-clock time passes
Advance ==
    /\ now < MaxTime
    /\ now' = now + 1
    /\ UNCHANGED << hostFrames, hostVars, mainVars, sizeVars, callVars, loopObs,
                    updatables, clock, renderer, reference, failure, writes >>

\* One display refresh: the host serves the outstanding frame requests.
\* Each served request runs the installed callback to completion.
HostFrame(thrower) ==
    /\ hostFrames < MaxFrames
    /\ LET run == ServeRequests(renderer.requests,
                      [clock |-> clock, log |-> << >>, rearm |-> 0,
                       threw |-> FALSE, invoked |-> 0],
                      renderer, updatables, now, thrower)
       IN  /\ hostFrames' = hostFrames + 1
           /\ clock' = run.clock
           /\ renderer' = [renderer EXCEPT !.requests = run.rearm]
           /\ tickCount' = [i \in 1..Len(updatables) |-> tickCount[i] + TicksOf(run.log, i)]
           /\ invocations' = [i \in 1..Len(updatables) |-> invocations[i] + run.invoked]
           /\ frame' = [log |-> run.log, invoked |-> run.invoked,
                        thrower |-> IF run.invoked > 0 THEN thrower ELSE 0,
                        at |-> now, n |-> Len(updatables), reference |-> reference,
                        starts |-> startsInARow, lifecycle |-> lifecycle,
                        failure |-> failure]
           /\ reference' = IF run.invoked > 0 THEN now ELSE reference
           /\ failure' = IF thrower # 0 /\ run.invoked > 0 THEN "failed" ELSE failure
           /\ writes' = writes \cup (IF run.invoked > 0 THEN {Write("clock", "frame")} ELSE {})
    /\ UNCHANGED << now, hostVars, mainVars, sizeVars, callVars, updatables >>

\* A frame in which no tick raises
Frame == HostFrame(0)

\* A frame in which the tick of a faulty Updatable raises
FrameRaising ==
    \E i \in 1..Len(updatables) : updatables[i] \in Throwing /\ HostFrame(i)

\* The host surface changes its size or pixel ratio
ContainerChange ==
    /\ \E h \in Hosts : h # host /\ host' = h
    /\ dimEvent' = IF dimEvent = "none" THEN "none" ELSE "stale"
    /\ UNCHANGED << now, hostFrames, mainVars, camera, listener, callVars, loopObs,
                    updatables, clock, renderer, reference, failure, writes >>

\* The window dispatches 'resize' to the listener of the Resizer. Events are
\* delivered between tasks, never inside main()'s synchronous code.
Resize ==
    /\ listener
    /\ pc \in {"started", "failed"}
    /\ LET res == ResizeListener(host, camera, renderer, clock, now)
       IN  /\ camera' = res.camera
           /\ renderer' = res.renderer
           /\ clock' = res.clock
           /\ writes' = writes \cup {Write(x, "resize") : x \in res.touched}
    /\ dimEvent' = IF dimEvent = "stale" THEN "resized" ELSE "resize"
    /\ UNCHANGED << now, hostFrames, hostVars, mainVars, listener, callVars, loopObs,
                    updatables, reference, failure >>

\* ------------------------------------------------------------ Loop, driven directly
\* loop.updatables.push(u)
Register(kind) ==
    /\ pc = "loop"
    /\ Len(updatables) < MaxUpdatables
    /\ updatables' = Append(updatables, kind)
    /\ tickCount' = Append(tickCount, 0)
    /\ invocations' = Append(invocations, 0)
    /\ UNCHANGED << now, hostFrames, hostVars, mainVars, sizeVars, callVars, clock,
                    renderer, reference, failure, frame, writes >>

RegisterUpdatable == \E kind \in Kinds : Register(kind)

RegisterFaulty == \E kind \in Throwing : Register(kind)

\* What a start() call does, whoever makes it
Started ==
    /\ renderer' = LoopStart(renderer)
    /\ startCalls' = startCalls + 1
    /\ lifecycle' = "running"
    /\ startsInARow' = startsInARow + 1
    /\ reference' = now
    /\ failure' = IF failure = "stopped" THEN "revived" ELSE failure

\* loop.start()
Start ==
    /\ pc = "loop"
    /\ calls < MaxCalls
    /\ calls' = calls + 1
    /\ Started
    /\ UNCHANGED << now, hostFrames, hostVars, mainVars, sizeVars, loopObs, updatables,
                    clock, writes >>

\* loop.stop()
Stop ==
    /\ pc = "loop"
    /\ calls < MaxCalls
    /\ calls' = calls + 1
    /\ renderer' = LoopStop(renderer)
    /\ lifecycle' = "stopped"
    /\ startsInARow' = 0
    /\ failure' = IF failure = "failed" THEN "stopped" ELSE failure
    /\ UNCHANGED << now, hostFrames, hostVars, mainVars, sizeVars, loopObs, updatables,
                    clock, startCalls, reference, writes >>

\* ------------------------------------------------------------ main()
\* new World(container): scene, camera, renderer, controls, loop, the two
\* registrations, appendChild, and the Resizer with its first setSize and
\* its listener
MainConstruct ==
    /\ pc = "boot"
    /\ pc' = "constructed"
    /\ updatables' = WorldUpdatables
    /\ tickCount' = [i \in 1..Len(WorldUpdatables) |-> 0]
    /\ invocations' = [i \in 1..Len(WorldUpdatables) |-> 0]
    /\ LET s == SetSize(host, camera, renderer)
       IN  camera' = s.camera /\ renderer' = s.renderer
    /\ listener' = TRUE
    /\ dimEvent' = "construct"
    /\ mainLog' = Append(mainLog, "construct")
    /\ writes' = writes \cup {Write("updatables", "setup"), Write("dimensions", "setup")}
    /\ UNCHANGED << now, hostFrames, hostVars, initOutcome, targetCopies, errorLogged,
                    callVars, clock, reference, failure, frame >>

\* new World(null): getElementById found no container, so appendChild raises
\* after the registrations and before the Resizer exists
MainConstructRaises ==
    /\ pc = "boot"
    /\ pc' = "rejected"
    /\ updatables' = WorldUpdatables
    /\ tickCount' = [i \in 1..Len(WorldUpdatables) |-> 0]
    /\ invocations' = [i \in 1..Len(WorldUpdatables) |-> 0]
    /\ mainLog' = Append(mainLog, "constructRaised")
    /\ writes' = writes \cup {Write("updatables", "setup")}
    /\ UNCHANGED << now, hostFrames, hostVars, initOutcome, targetCopies, errorLogged,
                    sizeVars, callVars, clock, renderer, reference, failure, frame >>

\* world.init() runs to its end and returns a resolved promise
MainInit ==
    /\ pc = "constructed"
    /\ pc' = "awaiting"
    /\ initOutcome' = "resolved"
    /\ targetCopies' = InitTarget(targetCopies)
    /\ mainLog' = mainLog \o << "target", "initReturned" >>
    /\ UNCHANGED << now, hostFrames, hostVars, errorLogged, sizeVars, callVars, loopObs,
                    updatables, clock, renderer, reference, failure, writes >>

\* world.init() raises, so the promise it returns is rejected
MainInitRejects ==
    /\ pc = "constructed"
    /\ pc' = "awaiting"
    /\ initOutcome' = "rejected"
    /\ mainLog' = Append(mainLog, "initRaised")
    /\ UNCHANGED << now, hostFrames, hostVars, targetCopies, errorLogged, sizeVars,
                    callVars, loopObs, updatables, clock, renderer, reference, failure,
                    writes >>

\* main() resumes after the await: world.start(), or the rejection is
\* re-raised and main()'s promise rejects
MainResume ==
    /\ pc = "awaiting"
    /\ IF AwaitInit(initOutcome) = "resolved"
       THEN /\ pc' = "started"
            /\ Started
            /\ mainLog' = Append(mainLog, "start")
       ELSE /\ pc' = "rejected"
            /\ mainLog' = mainLog
            /\ UNCHANGED << renderer, startCalls, lifecycle, startsInARow, reference,
                            failure >>
    /\ UNCHANGED << now, hostFrames, hostVars, initOutcome, targetCopies, errorLogged,
                    sizeVars, calls, loopObs, updatables, clock, writes >>

\* main().catch(err => console.error(err.message))
MainCatch ==
    /\ pc = "rejected"
    /\ pc' = "failed"
    /\ errorLogged' = TRUE
    /\ mainLog' = Append(mainLog, "catch")
    /\ UNCHANGED << now, hostFrames, hostVars, initOutcome, targetCopies, sizeVars,
                    callVars, loopObs, updatables, clock, renderer, reference, failure,
                    writes >>

\* ------------------------------------------------------------ specifications
\* The page as written: main() and the host events
Next ==
    \/ MainConstruct
    \/ MainInit
    \/ MainResume
    \/ Advance
    \/ Frame
    \/ ContainerChange
    \/ Resize

Spec == Init /\ [][Next]_vars

\* The page with a missing container or a rejecting init()
NextFault ==
    \/ Next
    \/ MainConstructRaises
    \/ MainInitRejects
    \/ MainCatch

SpecFault == Init /\ [][NextFault]_vars

\* A Loop driven through register, start, stop and host frames
NextLoop ==
    \/ RegisterUpdatable
    \/ Start
    \/ Stop
    \/ Advance
    \/ Frame

SpecLoop == InitLoop /\ [][NextLoop]_vars

\* The same with Updatables whose tick may raise
NextLoopFault ==
    \/ NextLoop
    \/ RegisterFaulty
    \/ FrameRaising

SpecLoopFault == InitLoop /\ [][NextLoopFault]_vars

\* ------------------------------------------------------------ properties
\* the log is exactly the ticks of Updatables 1..k, in that order
TicksUpTo(log, k) ==
    /\ Len(log) = k
    /\ \A j \in 1..k : log[j].op = "tick" /\ log[j].who = j

NoTicks(log) == \A j \in DOMAIN log : log[j].op # "tick"

\* C1: after registrations u1..un and N frame-callback invocations every
\* ui.tick has been called exactly N times, and within each invocation the
\* ticks run in registration order u1, u2, ..., un.
C1_TicksPerFrameInOrder ==
    /\ \A i \in 1..Len(updatables) : tickCount[i] = invocations[i]
    /\ frame.invoked = 1 =>
           \A j \in 1..frame.n : frame.log[j].op = "tick" /\ frame.log[j].who = j

C1_Witness ==
    /\ Len(updatables) = 2
    /\ invocations = << 2, 1 >>
    /\ tickCount = << 2, 1 >>
    /\ frame.invoked = 1
    /\ frame.n = 2

\* C2: start() called twice with no stop() in between leaves one active
\* per-frame callback: one outstanding frame request, and every later host
\* frame ticks every registered Updatable exactly once.
C2_StartTwiceOneCallback ==
    /\ startsInARow >= 2 => renderer.requests = 1 /\ renderer.callback = "frameCallback"
    /\ frame.starts >= 2 =>
           /\ frame.invoked = 1
           /\ \A i \in 1..frame.n : TicksOf(frame.log, i) = 1

C2_Witness ==
    /\ frame.starts >= 2
    /\ frame.n = 2
    /\ frame.invoked = 1

\* C3: a host frame delivered after stop() and before the next start() calls
\* no tick at all.
C3_NoTicksAfterStop ==
    frame.lifecycle = "stopped" => frame.invoked = 0 /\ frame.log = << >>

C3_Witness ==
    /\ frame.lifecycle = "stopped"
    /\ frame.n >= 1
    /\ tickCount[1] >= 1
    /\ hostFrames >= 2

\* C4: the delta handed to every tick is >= 0 and is the time since the
\* previous frame-callback invocation or, for the first frame after a
\* start(), the time since that start() call.
C4_DeltaSinceStartOrPreviousFrame ==
    \A j \in DOMAIN frame.log :
        frame.log[j].op = "tick" =>
            /\ frame.log[j].delta >= 0
            /\ frame.log[j].delta = frame.at - frame.reference

\* C5: a frame-callback invocation that completes issues exactly one render,
\* and issues it after the tick of every registered Updatable.
C5_OneRenderAfterAllTicks ==
    (frame.invoked = 1 /\ frame.thrower = 0) =>
        /\ Renders(frame.log) = 1
        /\ Len(frame.log) = frame.n + 1
        /\ frame.log[frame.n + 1].op = "render"
        /\ \A j \in 1..frame.n : frame.log[j].op = "tick" /\ frame.log[j].who = j

C5_Witness ==
    /\ frame.invoked = 1
    /\ frame.thrower = 0
    /\ frame.n = 2
    /\ Renders(frame.log) = 1

\* C9 as stated: a raising tick ends its frame callback (later Updatables
\* are not ticked, nothing is rendered) and no Updatable is ticked in any
\* later frame.
C9_NoTickEverAfterRaise ==
    /\ frame.thrower # 0 => TicksUpTo(frame.log, frame.thrower)
    /\ frame.failure # "none" => NoTicks(frame.log)

\* C9 amended: a raising tick ends its frame callback (later Updatables are
\* not ticked, nothing is rendered) and no Updatable is ticked in a later
\* frame until stop() followed by start() restarts the loop; start() alone
\* does not restart it.
C9_NoTickAfterRaiseUntilRestart ==
    /\ frame.thrower # 0 => TicksUpTo(frame.log, frame.thrower)
    /\ frame.failure \in {"failed", "stopped"} => frame.invoked = 0 /\ frame.log = << >>

C9_Witness ==
    /\ frame.failure = "failed"
    /\ frame.lifecycle = "running"
    /\ frame.starts >= 2
    /\ frame.n = 2
    /\ tickCount = << 1, 0 >>

\* the viewport state agrees with the host surface
Synced ==
    /\ camera.aspect = Ratio(host.clientWidth, host.clientHeight)
    /\ renderer.size = << host.clientWidth, host.clientHeight >>
    /\ renderer.pixelRatio = host.devicePixelRatio

\* C6: right after the Resizer is constructed and right after every resize
\* handler, camera.aspect, the renderer output size and the renderer pixel
\* ratio all agree with the host; between handlers the three never disagree
\* with one another.
C6_ViewportSynced ==
    /\ dimEvent \in {"construct", "resize", "resized"} => Synced
    /\ dimEvent # "none" =>
           /\ camera.aspect = Ratio(renderer.size[1], renderer.size[2])
           /\ renderer.canvas = << renderer.size[1] * renderer.pixelRatio,
                                   renderer.size[2] * renderer.pixelRatio >>

C6_Witness ==
    /\ dimEvent = "resized"
    /\ renderer.size = << 1, 2 >>
    /\ renderer.pixelRatio = 2
    /\ lifecycle = "running"

\* C7: when init() rejects, main() never calls start(): no callback is
\* installed, no frame is requested, no Updatable is ticked, and the catch
\* handler of main() reports the error.
C7_RejectedInitNeverStarts ==
    initOutcome = "rejected" =>
        /\ startCalls = 0
        /\ lifecycle = "idle"
        /\ renderer.callback = NULL
        /\ renderer.requests = 0
        /\ \A i \in 1..Len(updatables) : tickCount[i] = 0
        /\ pc \in {"awaiting", "rejected", "failed"}
        /\ pc = "failed" => errorLogged

C7_Witness ==
    /\ initOutcome = "rejected"
    /\ pc = "failed"
    /\ errorLogged
    /\ hostFrames = MaxFrames

\* position of a step in main()'s log, 0 if it has not happened
Pos(step) ==
    IF \E j \in DOMAIN mainLog : mainLog[j] = step
    THEN CHOOSE j \in DOMAIN mainLog : mainLog[j] = step
    ELSE 0

\* C8 as stated: the orbit target is set exactly once, after init() has
\* completed and before the first start(); no frame callback runs before it.
C8_TargetSetAfterInit ==
    pc = "started" =>
        /\ targetCopies = 1
        /\ Pos("initReturned") < Pos("target")
        /\ Pos("target") < Pos("start")

\* C8 amended: the orbit target is set exactly once, by init() itself before
\* it returns, and so before the first start(); no frame callback runs
\* before it.
C8_TargetSetByInit ==
    /\ targetCopies <= 1
    /\ targetCopies = 1 <=> Pos("target") > 0
    /\ pc \in {"awaiting", "started"} =>
           /\ targetCopies = 1
           /\ Pos("target") < Pos("initReturned")
    /\ startCalls > 0 =>
           /\ startCalls = 1
           /\ targetCopies = 1
           /\ Pos("initReturned") < Pos("start")
    /\ frame.invoked > 0 => targetCopies = 1

C8_Witness ==
    /\ pc = "started"
    /\ targetCopies = 1
    /\ frame.invoked = 1
    /\ tickCount = << 2, 2 >>

\* C10 as stated: every write of the Updatable sequence, the clock and the
\* camera/renderer dimensions comes from a frame callback or from setup code
\* that ran before the loop was started.
C10_WritesFromFrameOrSetup ==
    \A w \in writes : w.ctx = "frame" \/ (w.ctx = "setup" /\ ~w.started)

\* C10 amended: the Updatable sequence is written only by setup code before
\* the loop is started and the clock only by frame callbacks; the
\* camera/renderer dimensions are written by setup code before the loop is
\* started and by the resize handler, also while the loop is running.
C10_WritesByContext ==
    \A w \in writes :
        /\ w.state = "updatables" => w.ctx = "setup" /\ ~w.started
        /\ w.state = "clock" => w.ctx = "frame" /\ w.started
        /\ w.state = "dimensions" => (w.ctx = "setup" /\ ~w.started) \/ w.ctx = "resize"

C10_Witness ==
    /\ [state |-> "dimensions", ctx |-> "resize", started |-> TRUE] \in writes
    /\ [state |-> "clock", ctx |-> "frame", started |-> TRUE] \in writes
    /\ dimEvent = "resized"

====
